---------------------------- MODULE Spec2Model ----------------------------
(***************************************************************************)
(* Model of scripts/deploy_to_icloud.py: the incremental / full deployment *)
(* of a git working tree to a remote drive, with the retry wrapper, the    *)
(* remote state marker, and the whitelist filter.                          *)
(*                                                                         *)
(* Strings of the program are sequences of one-character strings, so that  *)
(* startswith, split, strip, dirname and basename are computed, not        *)
(* assumed.  A remote node is named by the sequence of names leading to it *)
(* from the drive.                                                         *)
(***************************************************************************)
EXTENDS Naturals, Sequences, FiniteSets, Bags, TLC

VARIABLES
    pc,           \* position of main(): "idle", "incr", "full", "mark", "done", "crashed", or "retry" (RetrySpec)
    remote,       \* the drive: a bag of nodes [path, kind, content]
    log,          \* remote calls and sleeps of the current run, in order
    faults,       \* remote failures injected so far
    runs,         \* runs of main() started so far
    current_hash, \* main: current_hash
    last_hash,    \* main: last_hash (None when the marker was not read)
    changes,      \* main: changes, the records git diff gave
    applied,      \* main: the positions of changes the loop has taken, in the order taken
    stack,        \* sync_directory: the frames of the recursive walk
    tree,         \* the local working tree: the set of files (relative paths)
    markerBefore, \* the marker contents of the drive when the run started
    args          \* RetrySpec: the arguments and the outcome of one retry_api_call

vars == <<pc, remote, log, faults, runs, current_hash, last_hash, changes,
          applied, stack, tree, markerBefore, args>>

-----------------------------------------------------------------------------
(* Bounds of the model *)

MaxFaults == 1     \* calls of the program that fail remotely in one behaviour
                   \* (the attempts of one retried call count once)
MaxRuns == 2       \* runs of main() in one behaviour
MaxChanges == 2    \* lines of one git diff
MaxRetries == 3    \* RetrySpec: largest retries argument drawn
MaxDelay == 2      \* RetrySpec: largest delay argument drawn

-----------------------------------------------------------------------------
(* Strings *)

SEP == "/"
TAB == "\t"
NL == "\n"
None == <<"<None>">>

Whitespace == {" ", TAB, NL}

RECURSIVE LStrip(_)
LStrip(s) == IF s # <<>> /\ Head(s) \in Whitespace THEN LStrip(Tail(s)) ELSE s

RECURSIVE RStrip(_)
RStrip(s) ==
    IF s # <<>> /\ s[Len(s)] \in Whitespace THEN RStrip(SubSeq(s, 1, Len(s) - 1)) ELSE s

\* str.strip()
Strip(s) == RStrip(LStrip(s))

\* str.startswith(prefix)
StartsWith(s, prefix) ==
    /\ Len(prefix) <= Len(s)
    /\ SubSeq(s, 1, Len(prefix)) = prefix

\* str.split(sep) for a one-character separator: always at least one part
RECURSIVE SplitFrom(_, _, _)
SplitFrom(s, sep, cur) ==
    IF s = <<>> THEN <<cur>>
    ELSE IF Head(s) = sep THEN <<cur>> \o SplitFrom(Tail(s), sep, <<>>)
    ELSE SplitFrom(Tail(s), sep, Append(cur, Head(s)))

Split(s, sep) == SplitFrom(s, sep, <<>>)

\* sep.join(parts)
RECURSIVE Join(_, _)
Join(parts, sep) ==
    IF parts = <<>> THEN <<>>
    ELSE IF Len(parts) = 1 THEN parts[1]
    ELSE parts[1] \o <<sep>> \o Join(Tail(parts), sep)

\* index of the last separator of s, 0 when there is none (str.rfind + 1)
RECURSIVE RFind(_, _)
RFind(s, sep) ==
    IF s = <<>> THEN 0
    ELSE IF s[Len(s)] = sep THEN Len(s)
    ELSE RFind(SubSeq(s, 1, Len(s) - 1), sep)

RECURSIVE RStripSep(_)
RStripSep(s) == IF s # <<>> /\ s[Len(s)] = SEP THEN RStripSep(SubSeq(s, 1, Len(s) - 1)) ELSE s

\* os.path.dirname
DirName(p) ==
    LET head == SubSeq(p, 1, RFind(p, SEP))
    IN IF head # <<>> /\ RStripSep(head) # <<>> THEN RStripSep(head) ELSE head

\* os.path.basename
BaseName(p) == SubSeq(p, RFind(p, SEP) + 1, Len(p))

RECURSIVE Pow2(_)
Pow2(i) == IF i = 0 THEN 1 ELSE 2 * Pow2(i - 1)

-----------------------------------------------------------------------------
(* Configuration (module level of deploy_to_icloud.py) and the local inputs *)

ICLOUD_FOLDER_NAME == <<"C", "o", "o", "k", "l", "a", "n", "g", "A", "p", "p">>

STATE_FILE_NAME == <<"l", "a", "s", "t", "_", "d", "e", "p", "l", "o", "y", "e", "d",
                     "_", "c", "o", "m", "m", "i", "t", ".", "t", "x", "t">>

\* The configured list, shortened to two one-letter category names:
\* "b" (bread) and "s" (soup).
DEFAULT_FOLDERS == <<"b", ",", " ", "s">>

FOLDERS_TO_SYNC ==
    LET parts == Split(DEFAULT_FOLDERS, ",")
    IN [i \in 1..Len(parts) |-> Strip(parts[i])]

PYCACHE == <<"_", "_", "p", "y", "c", "a", "c", "h", "e", "_", "_">>

\* Files of the working tree: soup/x and soup/d/y, which come and go, and
\* sx/w, whose top-level directory is not configured but starts like one
\* that is (as scripts/ does in the repository).
SoupX == <<"s", "/", "x">>
SoupDY == <<"s", "/", "d", "/", "y">>
OutW == <<"s", "x", "/", "w">>
GitFile == <<".", "g", "/", "c">>

CandidateFiles == {SoupX, SoupDY}

\* A working tree always holds its hidden .git directory and the scripts.
Trees == {t \cup {GitFile, OutW} : t \in SUBSET CandidateFiles}

\* Revision ids, as git prints them (one line)
Revs == {<<"r", "1">>, <<"r", "2">>}

\* What git rev-parse HEAD prints in run n + 1.  Revision ids are opaque, so
\* the first run is given the first of them.
RevParseOutput(n) == {r \o <<NL>> : r \in IF n = 0 THEN {<<"r", "1">>} ELSE Revs}

\* Lines "git diff --name-status" may print
Line(status, paths) == Join(<<status>> \o paths, TAB)

DiffLines ==
    { Line(<<"A">>, <<SoupX>>), Line(<<"D">>, <<SoupX>>), Line(<<"M">>, <<SoupDY>>),
      Line(<<"M">>, <<OutW>>), Line(<<"R", "1", "0", "0">>, <<SoupX, SoupDY>>) }

RECURSIVE SeqsUpTo(_, _)
SeqsUpTo(S, n) ==
    IF n = 0 THEN {<<>>}
    ELSE LET shorter == SeqsUpTo(S, n - 1)
         IN shorter \cup {Append(q, x) : q \in shorter, x \in S}

\* The outputs of git diff: the lines joined, nothing between equal revisions
DiffOutputs(from, to) ==
    IF from = to THEN {<<>>}
    ELSE {Join(ls, NL) \o (IF ls = <<>> THEN <<>> ELSE <<NL>>) : ls \in SeqsUpTo(DiffLines, MaxChanges)}

\* get_current_commit_hash, given the output of git rev-parse HEAD
get_current_commit_hash(output) == Strip(output)

\* get_git_changes, given the output of git diff --name-status
get_git_changes(raw) ==
    LET output == Strip(raw)
        lines == Split(output, NL)
        Parsed(line) ==
            LET parts == Split(line, TAB)
            IN IF Len(parts) >= 2 THEN <<[status |-> parts[1][1], path |-> parts[2]]>> ELSE <<>>
        RECURSIVE Collect(_)
        Collect(ls) == IF ls = <<>> THEN <<>> ELSE Parsed(Head(ls)) \o Collect(Tail(ls))
    IN IF output = <<>> THEN <<>> ELSE Collect(lines)

\* (mutant) a path of the diff is taken to be there
ExistsAlways(path) == TRUE

\* os.path.exists, on the working tree
Exists(path) == \E f \in tree : f = path \/ StartsWith(f, path \o <<SEP>>)

\* the bytes of a local file: the version checked out
ReadFile(path) == current_hash

\* if last_hash:
Truthy(s) == s # None /\ s # <<>>

-----------------------------------------------------------------------------
(* The remote drive (pyicloud), as the program sees it.                    *)
(* A world is the drive together with the record of the calls made on it;  *)
(* every operation maps a world to the set of worlds it may leave: one per *)
(* outcome the remote service may produce.                                 *)

NoErr == [exc |-> "", code |-> 0]
KeyError == [exc |-> "KeyError", code |-> 0]
ApiError(c) == [exc |-> "PyiCloudAPIResponseException", code |-> c]
OtherError == [exc |-> "Exception", code |-> 0]

\* what a remote call may raise: internal error, unavailable, another API
\* response, or an exception that is no API response (a dropped connection)
RemoteFailures == {ApiError(500), ApiError(503), ApiError(404), OtherError}

Node(path, kind, content) == [path |-> path, kind |-> kind, content |-> content]

Drive == Node(<<>>, "folder", <<>>)

AppFolder == Node(<<ICLOUD_FOLDER_NAME>>, "folder", <<>>)

IsPrefix(p, q) == Len(p) <= Len(q) /\ SubSeq(q, 1, Len(p)) = p

\* left: the calls the service may still fail; failing: a retried call that
\* has failed is being attempted again
World(r, l, left) ==
    [remote |-> r, log |-> l, left |-> left, failing |-> FALSE, unlisted |-> {}, for |-> <<>>,
     st |-> "ok", err |-> NoErr, ret |-> <<>>, val |-> <<>>]

Raise(w, e) == [w EXCEPT !.st = "raise", !.err = e, !.ret = <<>>, !.val = <<>>]

Return(w, nodes) == [w EXCEPT !.st = "ok", !.err = NoErr, !.ret = nodes, !.val = <<>>]

ReturnVal(w, v) == [w EXCEPT !.st = "ok", !.err = NoErr, !.ret = <<>>, !.val = v]

\* a log entry: the call, the node it names, what it raised, the nodes it
\* returned, the seconds slept, and the local path it was made for
Logged(w, op, path, err, secs) ==
    [w EXCEPT !.log = Append(@, [op |-> op, path |-> path, err |-> err, ret |-> <<>>,
                                 secs |-> secs, for |-> w.for])]

Returned(w, nodes) ==
    [Return(w, nodes) EXCEPT !.log = [@ EXCEPT ![Len(@)] = [@ EXCEPT !.ret = nodes]]]

For(w, path) == [w EXCEPT !.for = path]

\* the statements after a call run only when it returned
Bind(S, F(_)) == UNION {IF w.st = "ok" THEN F(w) ELSE {w} : w \in S}

\* the call fails remotely and changes nothing
Failed(w, op, path) ==
    IF w.failing
    THEN {Raise(Logged(w, op, path, e, 0), e) : e \in RemoteFailures}
    ELSE IF w.left > 0
    THEN {Raise([Logged(w, op, path, e, 0) EXCEPT !.left = @ - 1], e) : e \in RemoteFailures}
    ELSE {}

\* node[name]: the child of that name in the listing, KeyError on a miss
GetItem(w, node, name) ==
    LET p == Append(node.path, name)
        hits == {n \in BagToSet(w.remote) : n.path = p /\ p \notin w.unlisted}
    IN Failed(w, "lookup", p) \cup
       (IF hits = {}
        THEN {Raise(Logged(w, "lookup", p, KeyError, 0), KeyError)}
        ELSE {Return(Logged(w, "lookup", p, NoErr, 0), <<n>>) : n \in hits})

Without(bag, node) ==
    IF node.kind = "folder"
    THEN [n \in {m \in BagToSet(bag) : ~IsPrefix(node.path, m.path)} |-> bag[n]]
    ELSE bag (-) SetToBag({node})

\* node.delete()
Delete(w, node) ==
    Failed(w, "delete", node.path) \cup
    {Return(Logged([w EXCEPT !.remote = Without(@, node)], "delete", node.path, NoErr, 0), <<>>)}

\* node.mkdir(name): the folder is created; the response may hold the new
\* node's data or not, and then the parent's listing may still lack it
Mkdir(w, node, name) ==
    LET p == Append(node.path, name)
        new == Node(p, "folder", <<>>)
        Created(listed) ==
            Logged([w EXCEPT !.remote = @ (+) SetToBag({new}),
                             !.unlisted = IF listed THEN @ ELSE @ \cup {p}],
                   "mkdir", p, NoErr, 0)
    IN Failed(w, "mkdir", p) \cup
       {Returned(Created(TRUE), <<new>>), Return(Created(TRUE), <<>>), Return(Created(FALSE), <<>>)}

\* node.upload(f), f an open local file of that name and content
Upload(w, node, name, content) ==
    LET p == Append(node.path, name)
        new == Node(p, "file", content)
    IN Failed(w, "upload", p) \cup
       {Return(Logged([w EXCEPT !.remote = @ (+) SetToBag({new})], "upload", p, NoErr, 0), <<>>)}

\* node.open().content
OpenContent(w, node) ==
    Failed(w, "download", node.path) \cup
    {ReturnVal(Logged(w, "download", node.path, NoErr, 0), node.content)}

\* node.dir(): the listing is fetched again
Dir(w, node) ==
    Failed(w, "dir", node.path) \cup
    {Return(Logged([w EXCEPT !.unlisted = {u \in @ : ~(IsPrefix(node.path, u) /\ Len(u) = Len(node.path) + 1)}],
                   "dir", node.path, NoErr, 0), <<>>)}

\* the exception is handled and the call will be attempted again
Again(w) == [Return(w, <<>>) EXCEPT !.failing = TRUE]

\* time.sleep(secs)
Sleep(w, secs) == Logged(w, "sleep", <<>>, NoErr, secs)

\* func(*args) of retry_api_call: the two calls the program wraps
Call(w, call) ==
    IF call.op = "mkdir" THEN Mkdir(w, call.node, call.name)
    ELSE Upload(w, call.node, call.name, call.content)

MkdirCall(node, name) == [op |-> "mkdir", node |-> node, name |-> name, content |-> <<>>]

UploadCall(node, name, content) == [op |-> "upload", node |-> node, name |-> name, content |-> content]

-----------------------------------------------------------------------------
(* retry_api_call *)

Retries == 3   \* retries=3
Delay == 2     \* delay=2

\* (mutant) every API response is retried
UnavailableAny(e) == TRUE

\* if e.code == 503 or e.code == 500
Unavailable(e) == e.code = 503 \/ e.code = 500

\* (mutant) the last attempt is not recognised
LastAttemptOffByOne(i, retries) == i = retries

\* if i == retries - 1
LastAttempt(i, retries) == i = retries - 1

\* sleep_time = delay * (2 ** i)
Backoff(delay, i) == delay * Pow2(i)

\* the body of "for i in range(retries)", from iteration i on
RECURSIVE RetryFrom(_, _, _, _, _)
RetryFrom(w, call, retries, delay, i) ==
    IF i >= retries THEN {Return(w, <<>>)}
    ELSE UNION {
        IF r.st = "ok" THEN {r}
        ELSE IF r.err.exc = "PyiCloudAPIResponseException"
        THEN IF Unavailable(r.err)
             THEN IF LastAttempt(i, retries) THEN {r}
                  ELSE RetryFrom(Sleep(Again(r), Backoff(delay, i)), call, retries, delay, i + 1)
             ELSE {r}
        ELSE IF LastAttempt(i, retries) THEN {r}
             ELSE RetryFrom(Sleep(Again(r), delay), call, retries, delay, i + 1)
        : r \in Call(w, call) }

retry_api_call(w, call, retries, delay) ==
    {[r EXCEPT !.failing = FALSE] : r \in RetryFrom(w, call, retries, delay, 0)}

-----------------------------------------------------------------------------
(* The functions of deploy_to_icloud.py *)

\* get_last_deployed_commit: the result is in val, None when there is none
get_last_deployed_commit(w, app_folder) ==
    UNION {
        IF r.st = "raise" THEN {ReturnVal(r, None)}
        ELSE {IF c.st = "raise" THEN ReturnVal(c, None) ELSE ReturnVal(c, Strip(c.val))
              : c \in OpenContent(r, r.ret[1])}
        : r \in GetItem(w, app_folder, STATE_FILE_NAME) }

\* (mutant) the old marker is not deleted before the upload
update_last_deployed_commit_KeepOld(w, app_folder, commit_hash) ==
    {Return(r, <<>>) : r \in retry_api_call(w, UploadCall(app_folder, STATE_FILE_NAME, commit_hash),
                                            Retries, Delay)}

\* (mutant) the exceptions of the delete and of the upload are not caught
update_last_deployed_commit_Uncaught(w, app_folder, commit_hash) ==
    UNION {
        IF r.st = "ok" \/ r.err = KeyError
        THEN Bind(IF r.st = "ok" THEN Delete(r, r.ret[1]) ELSE {Return(r, <<>>)},
                  LAMBDA v : retry_api_call(v, UploadCall(app_folder, STATE_FILE_NAME, commit_hash),
                                            Retries, Delay))
        ELSE {r}
        : r \in GetItem(w, app_folder, STATE_FILE_NAME) }

\* update_last_deployed_commit: never raises
update_last_deployed_commit(w, app_folder, commit_hash) ==
    LET Put(v) == retry_api_call(v, UploadCall(app_folder, STATE_FILE_NAME, commit_hash),
                                 Retries, Delay)
        tried ==
            UNION {
                IF r.st = "ok" THEN Bind(Delete(r, r.ret[1]), Put)
                ELSE IF r.err = KeyError THEN Put(Return(r, <<>>))
                ELSE {r}
                : r \in GetItem(w, app_folder, STATE_FILE_NAME) }
    IN {Return(r, <<>>) : r \in tried}

\* (mutant) the exceptions of the navigation and of the delete are not caught
delete_file_Uncaught(w, icloud_folder, relative_path) ==
    LET RECURSIVE Navigate(_, _, _)
        Navigate(v, node, parts) ==
            IF parts = <<>> THEN {Return(v, <<node>>)}
            ELSE Bind(GetItem(v, node, Head(parts)),
                      LAMBDA r : Navigate(r, r.ret[1], Tail(parts)))
    IN Bind(Navigate(w, icloud_folder, Split(relative_path, SEP)),
            LAMBDA r : Delete(r, r.ret[1]))

\* delete_file: never raises
delete_file(w, icloud_folder, relative_path) ==
    LET RECURSIVE Navigate(_, _, _)
        Navigate(v, node, parts) ==
            IF parts = <<>> THEN {Return(v, <<node>>)}
            ELSE Bind(GetItem(v, node, Head(parts)),
                      LAMBDA r : Navigate(r, r.ret[1], Tail(parts)))
        tried == Bind(Navigate(w, icloud_folder, Split(relative_path, SEP)),
                      LAMBDA r : Delete(r, r.ret[1]))
    IN {Return(r, <<>>) : r \in tried}

\* (mutant) the folder is created without looking it up first
get_or_create_folder_Blind(w, drive, folder_name) ==
    Bind(Mkdir(w, drive, folder_name), LAMBDA m : GetItem(m, drive, folder_name))

\* get_or_create_folder
get_or_create_folder(w, drive, folder_name) ==
    UNION {
        IF r.st = "ok" THEN {r}
        ELSE IF r.err = KeyError
        THEN Bind(Mkdir(Return(r, <<>>), drive, folder_name),
                  LAMBDA m : GetItem(m, drive, folder_name))
        ELSE {r}
        : r \in GetItem(w, drive, folder_name) }

\* (mutant) the node of that name is not deleted before the upload
upload_file_NoDelete(w, drive_folder, local_path, relative_path) ==
    UNION {
        IF r.st = "ok" \/ r.err = KeyError
        THEN retry_api_call(Return(r, <<>>),
                            UploadCall(drive_folder, BaseName(local_path), ReadFile(local_path)),
                            Retries, Delay)
        ELSE {r}
        : r \in GetItem(w, drive_folder, BaseName(local_path)) }

\* upload_file
upload_file(w, drive_folder, local_path, relative_path) ==
    LET filename == BaseName(local_path)
        Put(v) == retry_api_call(v, UploadCall(drive_folder, filename, ReadFile(local_path)),
                                 Retries, Delay)
    IN UNION {
        IF r.st = "ok" THEN Bind(Delete(r, r.ret[1]), Put)
        ELSE IF r.err = KeyError THEN Put(Return(r, <<>>))
        ELSE {r}
        : r \in GetItem(w, drive_folder, filename) }

\* (mutant) the fallback fetches once, without refreshing the listing
FetchAfterMkdirNoRefresh(w, node, name) == GetItem(w, node, name)

\* The fallback after a mkdir whose result does not parse (sync_directory
\* and main hold the same statements): fetch, and on a miss refresh the
\* listing, ignoring a failure of the refresh, and fetch again.
FetchAfterMkdir(w, node, name) ==
    UNION {
        IF r.st = "ok" THEN {r}
        ELSE IF r.err = KeyError
        THEN UNION {GetItem(Return(d, <<>>), node, name) : d \in Dir(Return(r, <<>>), node)}
        ELSE {r}
        : r \in GetItem(w, node, name) }

\* (mutant) the folder is created without looking it up first
SubFolderAlwaysCreates(w, icloud_folder, dir_name) ==
    Bind(retry_api_call(w, MkdirCall(icloud_folder, dir_name), Retries, Delay),
         LAMBDA m : IF Len(m.ret) >= 1 THEN {Return(m, <<m.ret[1]>>)}
                    ELSE FetchAfterMkdir(m, icloud_folder, dir_name))

\* sync_directory: "Get or create subdirectory in iCloud"
SubFolder(w, icloud_folder, dir_name) ==
    UNION {
        IF r.st = "ok" THEN {r}
        ELSE IF r.err = KeyError
        THEN Bind(retry_api_call(Return(r, <<>>), MkdirCall(icloud_folder, dir_name), Retries, Delay),
                  LAMBDA m : IF Len(m.ret) >= 1 THEN {Return(m, <<m.ret[1]>>)}
                             ELSE FetchAfterMkdir(m, icloud_folder, dir_name))
        ELSE {r}
        : r \in GetItem(w, icloud_folder, dir_name) }

\* main: one turn of "for d in dirs" ("Traverse/Create dirs")
NextNode(w, current_node, d) ==
    UNION {
        IF r.st = "ok" THEN {r}
        ELSE IF r.err = KeyError
        THEN Bind(retry_api_call(Return(r, <<>>), MkdirCall(current_node, d), Retries, Delay),
                  LAMBDA m : IF Len(m.ret) >= 1 THEN {Return(m, <<m.ret[1]>>)}
                             ELSE FetchAfterMkdir(m, current_node, d))
        ELSE {r}
        : r \in GetItem(w, current_node, d) }

\* main: "for d in dirs", then the upload
RECURSIVE TraverseDirs(_, _, _)
TraverseDirs(w, current_node, dirs) ==
    IF dirs = <<>> THEN {Return(w, <<current_node>>)}
    ELSE IF Head(dirs) = <<>> THEN TraverseDirs(w, current_node, Tail(dirs))
    ELSE Bind(NextNode(w, current_node, Head(dirs)),
              LAMBDA r : TraverseDirs(r, r.ret[1], Tail(dirs)))

\* (mutant) the separator is left out of the prefix
InWhitelistedDirNoSep(path) ==
    \E i \in DOMAIN FOLDERS_TO_SYNC : StartsWith(path, FOLDERS_TO_SYNC[i])

\* the whitelist test main and sync_directory apply to a file's path
InWhitelistedDir(path) ==
    \E i \in DOMAIN FOLDERS_TO_SYNC : StartsWith(path, FOLDERS_TO_SYNC[i] \o <<SEP>>)

\* sync_directory: process_dir
ProcessDir(rel_path) ==
    \/ \E i \in DOMAIN FOLDERS_TO_SYNC : rel_path = FOLDERS_TO_SYNC[i]
    \/ InWhitelistedDir(rel_path)

\* sync_directory: entries that are always skipped
Skipped(name) == StartsWith(name, <<".">>) \/ name = PYCACHE

\* main: the body of "for status, path in changes" for one record
ApplyChange(w, status, path) ==
    IF ~InWhitelistedDir(path) THEN {w}
    ELSE IF status = "D" THEN delete_file(For(w, path), AppFolder, path)
    ELSE IF Exists(path)
    THEN Bind(TraverseDirs(For(w, path), AppFolder, Split(DirName(path), SEP)),
              LAMBDA r : upload_file(r, r.ret[1], path, path))
    ELSE {w}

\* sync_directory: os.scandir(local_root), the names under a directory
ScanDir(t, local_root) ==
    LET dirs == IF local_root = <<>> THEN <<>> ELSE Split(local_root, SEP)
        under == {f \in t : LET segs == Split(f, SEP)
                            IN IsPrefix(dirs, segs) /\ Len(segs) > Len(dirs)}
    IN {Split(f, SEP)[Len(dirs) + 1] : f \in under}

\* os.path.relpath(entry.path, os.getcwd())
RelPath(local_root, name) ==
    IF local_root = <<>> THEN name ELSE local_root \o <<SEP>> \o name

\* sync_directory: whether the loop does anything for an entry, or continues
Visited(t, local_root, name) ==
    /\ ~Skipped(name)
    /\ IF RelPath(local_root, name) \in t THEN InWhitelistedDir(RelPath(local_root, name))
       ELSE ProcessDir(RelPath(local_root, name))

\* one call of sync_directory: the entries its loop has yet to visit
Frame(t, local_root, icloud_folder) ==
    [local |-> local_root, folder |-> icloud_folder,
     todo |-> {name \in ScanDir(t, local_root) : Visited(t, local_root, name)}]

\* sync_directory: the body of "for entry in it" for one entry; a directory
\* that is entered leaves its remote folder in ret
SyncEntry(w, local_root, icloud_folder, name) ==
    LET rel == RelPath(local_root, name)
    IN IF ~Visited(tree, local_root, name) THEN {Return(w, <<>>)}
       ELSE IF rel \in tree THEN upload_file(For(w, rel), icloud_folder, rel, rel)
       ELSE SubFolder(For(w, rel), icloud_folder, name)

\* the frames whose loop is over return
RECURSIVE Unwind(_)
Unwind(st) ==
    IF st # <<>> /\ st[Len(st)].todo = {} THEN Unwind(SubSeq(st, 1, Len(st) - 1)) ELSE st

\* the contents of the marker nodes of a drive
MarkerContents(bag) ==
    {n.content : n \in {m \in BagToSet(bag) : m.path = <<ICLOUD_FOLDER_NAME, STATE_FILE_NAME>>}}

-----------------------------------------------------------------------------
(* main(), run after run *)

NoArgs == [retries |-> Retries, delay |-> Delay, op |-> "", st |-> "", err |-> NoErr, ret |-> <<>>]

Init ==
    /\ pc = "idle"
    /\ remote = EmptyBag
    /\ log = <<>>
    /\ faults = 0
    /\ runs = 0
    /\ current_hash = None
    /\ last_hash = None
    /\ changes = <<>>
    /\ applied = <<>>
    /\ stack = <<>>
    /\ tree = {GitFile}
    /\ markerBefore = {}
    /\ args = NoArgs

\* main, lines 280-304 and 353-357: the root folder, the two hashes, the mode
Begin ==
    /\ pc \in {"idle", "done", "crashed"}
    /\ runs < MaxRuns
    /\ runs' = runs + 1
    /\ markerBefore' = MarkerContents(remote)
    /\ applied' = <<>>
    /\ args' = args
    /\ \E r \in get_or_create_folder(World(remote, <<>>, MaxFaults - faults), Drive, ICLOUD_FOLDER_NAME) :
         IF r.st = "raise"
         THEN /\ pc' = "crashed"
              /\ remote' = r.remote
              /\ log' = r.log
              /\ faults' = MaxFaults - r.left
              /\ UNCHANGED <<current_hash, last_hash, changes, stack, tree>>
         ELSE \E t \in Trees, output \in RevParseOutput(runs) :
              \E m \in get_last_deployed_commit(r, r.ret[1]) :
                /\ tree' = t
                /\ current_hash' = get_current_commit_hash(output)
                /\ last_hash' = m.val
                /\ remote' = m.remote
                /\ log' = m.log
                /\ faults' = MaxFaults - m.left
                /\ IF Truthy(m.val)
                   THEN \E raw \in DiffOutputs(m.val, current_hash') :
                          /\ changes' = get_git_changes(raw)
                          /\ stack' = <<>>
                          /\ pc' = IF changes' = <<>> THEN "done" ELSE "incr"
                   ELSE /\ changes' = <<>>
                        /\ stack' = Unwind(<<Frame(t, <<>>, r.ret[1])>>)
                        /\ pc' = IF stack' = <<>> THEN "mark" ELSE "full"

\* (mutant) the loop takes the upserts before the deletes
NextChangeUpsertsFirst(chs, done) ==
    LET todo == (1..Len(chs)) \ {done[j] : j \in 1..Len(done)}
        upserts == {i \in todo : chs[i].status # "D"}
        from == IF upserts # {} THEN upserts ELSE todo
    IN CHOOSE i \in from : \A j \in from : i <= j

\* main, line 305: the record "for status, path in changes" takes next,
\* given the positions it has taken
NextChange(chs, done) == Len(done) + 1

\* main, lines 305-349: one change record
IncrStep ==
    /\ pc = "incr"
    /\ Len(applied) < Len(changes)
    /\ LET i == NextChange(changes, applied)
           rec == changes[i]
       IN \E r \in ApplyChange(World(remote, log, MaxFaults - faults), rec.status, rec.path) :
            /\ remote' = r.remote
            /\ log' = r.log
            /\ faults' = MaxFaults - r.left
            /\ applied' = Append(applied, i)
            /\ pc' = IF r.st = "raise" THEN "crashed"
                     ELSE IF Len(applied') = Len(changes) THEN "mark" ELSE "incr"
    /\ UNCHANGED <<runs, current_hash, last_hash, changes, stack, tree, markerBefore, args>>

\* sync_directory, lines 211-273: one directory entry, in any order
FullStep ==
    /\ pc = "full"
    /\ stack # <<>>
    /\ LET top == stack[Len(stack)]
           below == SubSeq(stack, 1, Len(stack) - 1)
       IN \E name \in top.todo :
          \E r \in SyncEntry(World(remote, log, MaxFaults - faults), top.local, top.folder, name) :
            LET rest == Append(below, [top EXCEPT !.todo = @ \ {name}])
                entered == IF r.ret = <<>> THEN rest
                           ELSE Append(rest, Frame(tree, RelPath(top.local, name), r.ret[1]))
            IN /\ remote' = r.remote
               /\ log' = r.log
               /\ faults' = MaxFaults - r.left
               /\ stack' = IF r.st = "raise" THEN rest ELSE Unwind(entered)
               /\ pc' = IF r.st = "raise" THEN "crashed"
                        ELSE IF stack' = <<>> THEN "mark" ELSE "full"
    /\ UNCHANGED <<runs, current_hash, last_hash, changes, applied, tree, markerBefore, args>>

\* main, lines 351 and 358-360: the marker, then "Deployment complete!"
UpdateMarker ==
    /\ pc = "mark"
    /\ \E r \in update_last_deployed_commit(World(remote, log, MaxFaults - faults), AppFolder, current_hash) :
         /\ remote' = r.remote
         /\ log' = r.log
         /\ faults' = MaxFaults - r.left
         /\ pc' = IF r.st = "raise" THEN "crashed" ELSE "done"
    /\ UNCHANGED <<runs, current_hash, last_hash, changes, applied, stack, tree, markerBefore, args>>

Next == Begin \/ IncrStep \/ FullStep \/ UpdateMarker

Spec == Init /\ [][Next]_vars

-----------------------------------------------------------------------------
(* retry_api_call alone: one call, with the arguments drawn and every      *)
(* attempt free to fail                                                     *)

RetryArgs ==
    {[retries |-> n, delay |-> d, op |-> o, st |-> "", err |-> NoErr, ret |-> <<>>]
     : n \in 0..MaxRetries, d \in 1..MaxDelay, o \in {"mkdir", "upload"}}

RetryInit ==
    /\ pc = "retry"
    /\ remote = SetToBag({AppFolder})
    /\ log = <<>>
    /\ faults = 0
    /\ runs = 0
    /\ current_hash = None
    /\ last_hash = None
    /\ changes = <<>>
    /\ applied = <<>>
    /\ stack = <<>>
    /\ tree = {GitFile, OutW, SoupX}
    /\ markerBefore = {}
    /\ args \in RetryArgs

RetryCall ==
    /\ pc = "retry"
    /\ LET call == IF args.op = "mkdir" THEN MkdirCall(AppFolder, <<"s">>)
                   ELSE UploadCall(AppFolder, <<"x">>, <<"r", "1">>)
       IN \E r \in retry_api_call(World(remote, log, 1), call, args.retries, args.delay) :
            /\ remote' = r.remote
            /\ log' = r.log
            /\ faults' = 1 - r.left
            /\ args' = [args EXCEPT !.st = r.st, !.err = r.err, !.ret = r.ret]
            /\ pc' = IF r.st = "raise" THEN "raised" ELSE "returned"
    /\ UNCHANGED <<runs, current_hash, last_hash, changes, applied, stack, tree, markerBefore>>

RetrySpec == RetryInit /\ [][RetryCall]_vars

-----------------------------------------------------------------------------
(* Claims about retry_api_call, checked under RetrySpec *)

RetryOver == pc \in {"returned", "raised"}

\* the positions of the log where the wrapped operation was invoked
AttemptAt == {k \in 1..Len(log) : log[k].op \in {"mkdir", "upload"}}

FailedAt(k) == k \in AttemptAt /\ log[k].err # NoErr

IsUnavailable(e) == e = ApiError(500) \/ e = ApiError(503)

\* the failure of attempt k reached the caller at once: nothing was slept
\* and nothing invoked after it
PropagatedAt(k) == k = Len(log) /\ pc = "raised" /\ args.err = log[k].err

\* C4 (as stated): a failure that is not a 500/503 remote response, on any
\* attempt, is not retried and not slept on: it propagates at once.
C4_NonUnavailableNotRetried ==
    RetryOver =>
        \A k \in 1..Len(log) :
            (FailedAt(k) /\ ~IsUnavailable(log[k].err)) => PropagatedAt(k)

\* C4 (amended): a remote API response whose code is neither 500 nor 503,
\* on any attempt, is not retried and not slept on: it propagates at once.
C4_OtherApiResponseNotRetried ==
    RetryOver =>
        \A k \in 1..Len(log) :
            (/\ FailedAt(k)
             /\ log[k].err.exc = "PyiCloudAPIResponseException"
             /\ ~IsUnavailable(log[k].err)) => PropagatedAt(k)

\* a 404 response on the second attempt, after one retried failure
C4_Witness ==
    /\ pc = "raised"
    /\ args.retries = 3
    /\ Len(log) = 3
    /\ log[1].err = ApiError(503)
    /\ log[2].op = "sleep"
    /\ log[3].err = ApiError(404)
    /\ args.err = ApiError(404)

\* C5: after a transient failure of attempt k < retries, a 500/503 response
\* or an exception that is no API response, delay * 2^(k-1) is slept before
\* attempt k+1; an upload that fails so twice and then succeeds has slept
\* delay, then 2 * delay, and the file is on the drive.
C5_ExponentialBackoff ==
    RetryOver =>
        \A k \in 1..Len(log) :
            (/\ FailedAt(k)
             /\ (IsUnavailable(log[k].err) \/ log[k].err = OtherError)
             /\ Cardinality({j \in AttemptAt : j <= k}) < args.retries)
            => /\ k + 2 <= Len(log)
               /\ log[k + 1].op = "sleep"
               /\ log[k + 1].secs = args.delay * Pow2(Cardinality({j \in AttemptAt : j <= k}) - 1)
               /\ k + 2 \in AttemptAt

\* C6: the operation is invoked at most retries times; when every attempt
\* failed the last failure is raised with no sleep after it; an attempt that
\* succeeds is the last one and its result is returned.
C6_AttemptBudget ==
    RetryOver =>
        /\ Cardinality(AttemptAt) <= args.retries
        /\ \A k \in AttemptAt :
             IF FailedAt(k)
             THEN (Cardinality({j \in AttemptAt : j <= k}) = args.retries) => PropagatedAt(k)
             ELSE k = Len(log) /\ pc = "returned" /\ args.ret = log[k].ret
        /\ (pc = "raised") => (Len(log) \in AttemptAt /\ FailedAt(Len(log)))
        /\ (pc = "returned" /\ args.retries > 0) => (Len(log) \in AttemptAt /\ ~FailedAt(Len(log)))

\* three attempts, each failing with 503: the third failure is raised
C6_Witness ==
    /\ pc = "raised"
    /\ args.retries = 3
    /\ Cardinality(AttemptAt) = 3
    /\ \A k \in AttemptAt : log[k].err = ApiError(503)
    /\ log[Len(log)].op # "sleep"
    /\ args.err = ApiError(503)

-----------------------------------------------------------------------------
(* Claims about the runs of main(), checked under Spec *)

\* the run took the incremental branch (line 296)
Incremental == Truthy(last_hash) /\ pc \in {"incr", "mark", "done", "crashed"}

\* the run took the full branch (line 353)
Full == ~Truthy(last_hash) /\ pc \in {"full", "mark", "done"}

Mutating == {"mkdir", "upload", "delete"}

\* positions of the log where a remote call failed (a miss is no failure)
FailureAt == {k \in 1..Len(log) : log[k].err \notin {NoErr, KeyError}}

\* the remote path of a local path
RemotePath(path) == <<ICLOUD_FOLDER_NAME>> \o Split(path, SEP)

MarkerPath == <<ICLOUD_FOLDER_NAME, STATE_FILE_NAME>>

NodesAt(p) == {n \in BagToSet(remote) : n.path = p}

\* a path is in scope when it is a configured name or lies under one
InScope(path) ==
    \E i \in DOMAIN FOLDERS_TO_SYNC :
        \/ path = FOLDERS_TO_SYNC[i]
        \/ (Len(Split(path, SEP)) > 1 /\ Split(path, SEP)[1] = FOLDERS_TO_SYNC[i])

\* C1: an incremental run whose diff is empty mutates nothing of the synced
\* content and ends with the marker holding the current revision.
C1_EmptyDiffStillMarks ==
    (pc = "done" /\ Incremental /\ changes = <<>>) =>
        /\ \A k \in 1..Len(log) : log[k].op \in Mutating => log[k].path = MarkerPath
        /\ MarkerContents(remote) = {current_hash}

\* every local path of the model: the files and the directories over them
LocalPaths ==
    LET files == CandidateFiles \cup {OutW, GitFile}
    IN UNION {{Join(SubSeq(Split(f, SEP), 1, n), SEP) : n \in 1..Len(Split(f, SEP))} : f \in files}

OutOfScope == {f \in LocalPaths : ~InScope(f)}

\* the names a node under the root may bear when nothing is out of scope
ScopedNames == {FOLDERS_TO_SYNC[i] : i \in DOMAIN FOLDERS_TO_SYNC} \cup {STATE_FILE_NAME}

\* C2: in both modes no remote call (lookup, mkdir, upload, delete) is made
\* for a local path outside the whitelist, whatever else the run applies,
\* and nothing of such a path is named to the drive or lies on it.
C2_OutsideWhitelistUntouched ==
    /\ \A k \in 1..Len(log) :
         /\ log[k].for \notin OutOfScope
         /\ Len(log[k].path) > 1 => log[k].path[2] \in ScopedNames
    /\ \A n \in BagToSet(remote) : Len(n.path) > 1 => n.path[2] \in ScopedNames

\* an incremental run that applied a change of sx/w and a change of soup/x,
\* and a full walk over a tree that holds sx/w, both with uploads
C2_Witness ==
    /\ pc = "done"
    /\ Incremental
    /\ applied = <<1, 2>>
    /\ changes[1].path = OutW
    /\ changes[2].path = SoupX
    /\ \E k \in 1..Len(log) : log[k].op = "upload" /\ log[k].for = SoupX /\ log[k].err = NoErr

\* a change application failed: a call made for a change record or a walked
\* entry failed and was not attempted again
ApplicationFailed ==
    \E k \in FailureAt :
        /\ log[k].for # <<>>
        /\ (k = Len(log) \/ log[k + 1].op # "sleep")

\* C3: the marker is written only after every change application of the run
\* succeeded; in a run where one failed the marker keeps its value.
C3_MarkerOnlyAfterSuccess ==
    ApplicationFailed =>
        /\ MarkerContents(remote) = markerBefore
        /\ \A k \in 1..Len(log) : log[k].path = MarkerPath => log[k].op \notin Mutating

-----------------------------------------------------------------------------
(* The marker alone: update_last_deployed_commit, then                     *)
(* get_last_deployed_commit, on a root whose marker is absent or holds any *)
(* revision                                                                *)

MarkerInit ==
    /\ pc = "write"
    /\ \E old \in {None} \cup Revs :
         /\ remote = SetToBag({AppFolder} \cup
                              (IF old = None THEN {} ELSE {Node(MarkerPath, "file", old)}))
         /\ markerBefore = (IF old = None THEN {} ELSE {old})
    /\ current_hash \in {get_current_commit_hash(output) : output \in RevParseOutput(1)}
    /\ log = <<>>
    /\ faults = 0
    /\ runs = 0
    /\ last_hash = None
    /\ changes = <<>>
    /\ applied = <<>>
    /\ stack = <<>>
    /\ tree = {GitFile, OutW}
    /\ args = NoArgs

MarkerWrite ==
    /\ pc = "write"
    /\ \E r \in update_last_deployed_commit(World(remote, log, MaxFaults - faults), AppFolder, current_hash) :
         /\ remote' = r.remote
         /\ log' = r.log
         /\ faults' = MaxFaults - r.left
    /\ pc' = "read"
    /\ UNCHANGED <<runs, current_hash, last_hash, changes, applied, stack, tree, markerBefore, args>>

MarkerRead ==
    /\ pc = "read"
    /\ \E r \in get_last_deployed_commit(World(remote, log, MaxFaults - faults), AppFolder) :
         /\ remote' = r.remote
         /\ log' = r.log
         /\ faults' = MaxFaults - r.left
         /\ last_hash' = r.val
    /\ pc' = "read done"
    /\ UNCHANGED <<runs, current_hash, changes, applied, stack, tree, markerBefore, args>>

MarkerNext == MarkerWrite \/ MarkerRead

MarkerSpec == MarkerInit /\ [][MarkerNext]_vars

\* positions of the log where a remote call failed for good: it was not
\* slept on and attempted again
UnrecoveredAt == {k \in FailureAt : k = Len(log) \/ log[k + 1].op # "sleep"}

\* C7: whatever the root held (no marker, or a marker of any revision),
\* update_last_deployed_commit(root, R) followed by
\* get_last_deployed_commit(root) returns exactly R, and the root holds
\* exactly one marker node (when no remote call of the two failed for good).
C7_MarkerRoundTrip ==
    (pc = "read done" /\ UnrecoveredAt = {}) =>
        /\ last_hash = current_hash
        /\ Cardinality(NodesAt(MarkerPath)) = 1
        /\ \A n \in NodesAt(MarkerPath) : CopiesIn(n, remote) = 1

\* the root held the marker of another revision, and R was read back
C7_Witness ==
    /\ pc = "read done"
    /\ UnrecoveredAt = {}
    /\ markerBefore # {}
    /\ markerBefore # {current_hash}
    /\ last_hash = current_hash
    /\ \E k \in 1..Len(log) : log[k].op = "upload" /\ log[k].err = NoErr

-----------------------------------------------------------------------------
(* Claims about the runs of main(), continued *)

\* the entries the step now taken has added to the log
NewEntries == SubSeq(log', Len(log) + 1, Len(log'))

\* C8: delete_file returns normally whatever the remote answers; called on
\* a path that is not on the drive (a segment is missing, or an earlier
\* call deleted it) it leaves the drive as it is and creates no folder.
C8_DeleteIdempotent ==
    [][(/\ pc = "incr"
        /\ applied' # applied
        /\ changes[applied'[Len(applied')]].status = "D"
        /\ InScope(changes[applied'[Len(applied')]].path))
       => /\ pc' # "crashed"
          /\ NodesAt(RemotePath(changes[applied'[Len(applied')]].path)) = {}
               => /\ remote' = remote
                  /\ \A k \in 1..Len(NewEntries) : NewEntries[k].op \notin Mutating]_vars

\* delete_file was called twice on soup/x: the first call deleted the node,
\* the second missed it
C8_Witness ==
    /\ pc \in {"mark", "done"}
    /\ applied = <<1, 2>>
    /\ changes[1] = [status |-> "D", path |-> SoupX]
    /\ changes[2] = [status |-> "D", path |-> SoupX]
    /\ \E k \in 1..Len(log) :
         /\ log[k].op = "delete" /\ log[k].for = SoupX /\ log[k].err = NoErr
         /\ \E j \in (k + 1)..Len(log) :
              log[j].op = "lookup" /\ log[j].path = RemotePath(SoupX) /\ log[j].err = KeyError

\* the positions of changes that act on path p: a delete, or an upsert of a
\* file that is there
ActingOn(p) ==
    {i \in 1..Len(changes) :
        /\ changes[i].path = p
        /\ InScope(p)
        /\ (changes[i].status = "D" \/ p \in tree)}

Latest(S) == CHOOSE i \in S : \A j \in S : j <= i

\* C9: the records are applied in the order of the diff, so that of the
\* records acting on one path the last emitted decides: a delete leaves the
\* path absent, an upsert leaves it present with the local contents (in a
\* run none of whose remote calls failed for good).
C9_EmissionOrder ==
    /\ (Incremental => \A i \in 1..Len(applied) : applied[i] = i)
    /\ (Incremental /\ pc \in {"mark", "done"} /\ UnrecoveredAt = {}) =>
          \A p \in CandidateFiles :
              ActingOn(p) # {} =>
                  IF changes[Latest(ActingOn(p))].status = "D"
                  THEN NodesAt(RemotePath(p)) = {}
                  ELSE /\ NodesAt(RemotePath(p)) = {Node(RemotePath(p), "file", current_hash)}
                       /\ CopiesIn(Node(RemotePath(p), "file", current_hash), remote) = 1

\* [(D, soup/x), (A, soup/x)] with soup/x on the drive before and in the
\* working tree: deleted, then uploaded, and present at the end
C9_Witness ==
    /\ pc = "done"
    /\ Incremental
    /\ UnrecoveredAt = {}
    /\ applied = <<1, 2>>
    /\ changes = <<[status |-> "D", path |-> SoupX], [status |-> "A", path |-> SoupX]>>
    /\ SoupX \in tree
    /\ \E k \in 1..Len(log) :
         /\ log[k].op = "delete" /\ log[k].for = SoupX /\ log[k].err = NoErr
         /\ \E j \in (k + 1)..Len(log) :
              log[j].op = "upload" /\ log[j].for = SoupX /\ log[j].err = NoErr
    /\ NodesAt(RemotePath(SoupX)) # {}

\* the successful mutations of the run, in order, as <<op, path>>
Done(e) == e.op \in Mutating /\ e.err = NoErr

Mutations ==
    LET done == SelectSeq(log, Done)
    IN [i \in 1..Len(done) |-> <<done[i].op, done[i].path>>]

\* the last call before position k that is neither a sleep nor an earlier
\* attempt of the same mkdir
BeforeMkdir(k) ==
    {j \in 1..(k - 1) :
        /\ ~(log[j].op = "sleep" \/ (log[j].op = "mkdir" /\ log[j].path = log[k].path))
        /\ \A i \in (j + 1)..(k - 1) :
             log[i].op = "sleep" \/ (log[i].op = "mkdir" /\ log[i].path = log[k].path)}

FreshSoupWalk == <<<<"mkdir", RemotePath(<<"s">>)>>, <<"upload", RemotePath(SoupX)>>,
                   <<"upload", MarkerPath>>>>

\* C10: in both modes a folder is created only after the lookup of its name
\* under its parent missed, at most once per path in a run, and before any
\* upload beneath it; the full sync of a tree holding only soup/x to a root
\* without soup makes mkdir(soup), the upload of soup/x and the upload of
\* the marker with the current revision, in that order.
C10_LazyFolders ==
    /\ \A k \in 1..Len(log) :
         log[k].op = "mkdir" =>
             /\ BeforeMkdir(k) # {}
             /\ \A j \in BeforeMkdir(k) :
                  log[j].op = "lookup" /\ log[j].path = log[k].path /\ log[j].err = KeyError
    /\ \A k, j \in 1..Len(log) :
         (Done(log[k]) /\ Done(log[j]) /\ log[k].op = "mkdir" /\ log[j].op = "mkdir"
          /\ log[k].path = log[j].path) => k = j
    /\ \A k, j \in 1..Len(log) :
         (Done(log[k]) /\ log[k].op = "mkdir" /\ log[j].op = "upload"
          /\ IsPrefix(log[k].path, log[j].path)) => k < j
    /\ (/\ pc = "done"
        /\ Full
        /\ tree \cap CandidateFiles = {SoupX}
        /\ UnrecoveredAt = {}
        /\ \E k \in 1..Len(log) : log[k].path = RemotePath(<<"s">>) /\ log[k].err = KeyError)
       => /\ Mutations \in {FreshSoupWalk, <<<<"mkdir", <<ICLOUD_FOLDER_NAME>>>>>> \o FreshSoupWalk}
          /\ MarkerContents(remote) = {current_hash}
          /\ NodesAt(RemotePath(SoupX)) = {Node(RemotePath(SoupX), "file", current_hash)}

\* the full sync of soup/x to an empty drive, with no failure
C10_Witness ==
    /\ pc = "done"
    /\ Full
    /\ tree \cap CandidateFiles = {SoupX}
    /\ FailureAt = {}
    /\ Mutations = <<<<"mkdir", <<ICLOUD_FOLDER_NAME>>>>>> \o FreshSoupWalk
    /\ MarkerContents(remote) = {current_hash}

-----------------------------------------------------------------------------
(* Claims about failures of remote calls, checked under Spec *)

\* positions of the log where a mutating call was attempted for the first
\* time (not the renewed attempt that follows a sleep)
FirstAttemptAt ==
    {k \in 1..Len(log) : log[k].op \in Mutating /\ (k = 1 \/ log[k - 1].op # "sleep")}

\* C11: every mutating call (mkdir, the root's included; upload; delete of
\* a changed path, of a node to overwrite, of the marker) is wrapped by
\* retry_api_call: a 500/503 answer to its first attempt is slept on and
\* the call is attempted again, instead of reaching the caller.
C11_MutationsRetried ==
    \A k \in FirstAttemptAt :
        IsUnavailable(log[k].err) =>
            /\ k + 2 <= Len(log)
            /\ log[k + 1].op = "sleep"
            /\ log[k + 2].op = log[k].op
            /\ log[k + 2].path = log[k].path

\* C12: in the incremental loop a mutation (mkdir, delete, upload) made for
\* a change record that still fails with 500/503 when its attempts are used
\* up does not abort the run: the loop goes on to the next record.
C12_FailureDoesNotAbort ==
    (/\ applied # <<>>
     /\ \E k \in UnrecoveredAt :
          log[k].op \in Mutating /\ log[k].for # <<>> /\ IsUnavailable(log[k].err))
    => pc # "crashed"

\* positions of the log where get_last_deployed_commit failed: the download
\* of the marker, or the first lookup of it in the run, raised something
\* other than KeyError
MarkerReadFailedAt ==
    {k \in FailureAt :
        /\ log[k].path = MarkerPath
        /\ \/ log[k].op = "download"
           \/ (log[k].op = "lookup" /\ \A j \in 1..(k - 1) : log[j].path # MarkerPath)}

\* positions of the log where update_last_deployed_commit failed for good
MarkerWriteFailedAt ==
    {k \in UnrecoveredAt :
        /\ log[k].path = MarkerPath
        /\ k \notin MarkerReadFailedAt}

\* C13: a failure to read the marker (other than its absence) aborts the
\* run before a mode is started and before any mutation; a failure to write
\* the marker keeps the run from ending in the success state.
C13_MarkerFailureAborts ==
    /\ \A k \in MarkerReadFailedAt :
         /\ pc \notin {"incr", "full", "mark", "done"}
         /\ \A j \in (k + 1)..Len(log) : log[j].op \notin Mutating
    /\ (MarkerWriteFailedAt # {}) => pc # "done"

-----------------------------------------------------------------------------
(* Claims about the incremental loop, continued *)

\* the record the step now taken has applied
Taken == changes[applied'[Len(applied')]]

\* the positions of changes that upsert (A, M, R) a whitelisted file that
\* is not in the working tree
VanishedAt ==
    {i \in 1..Len(changes) :
        changes[i].status # "D" /\ InScope(changes[i].path) /\ changes[i].path \notin tree}

\* C14: in an incremental run, for an A/M/R record whose local file is not
\* there, no remote call is made for the record and the drive is left as it
\* is; the loop goes on with the records that remain, and the run still
\* writes the marker at its end.
C14_VanishedFileSkipped ==
    [][/\ (/\ pc = "incr"
           /\ applied' # applied
           /\ applied'[Len(applied')] \in VanishedAt)
          => /\ log' = log
             /\ remote' = remote
             /\ pc' = IF Len(applied') = Len(changes) THEN "mark" ELSE "incr"
       /\ (pc = "mark" /\ VanishedAt # {})
          => /\ pc' = "done"
             /\ \E k \in 1..Len(NewEntries) : NewEntries[k].path = MarkerPath
             /\ (\A k \in 1..Len(NewEntries) : NewEntries[k].err \in {NoErr, KeyError})
                   => MarkerContents(remote') = {current_hash}]_vars

\* [(M, soup/d/y), (A, soup/x)] with soup/d/y gone from the working tree:
\* nothing was called for soup/d/y, soup/x was uploaded, the marker written
C14_Witness ==
    /\ pc = "done"
    /\ Incremental
    /\ changes = <<[status |-> "M", path |-> SoupDY], [status |-> "A", path |-> SoupX]>>
    /\ applied = <<1, 2>>
    /\ SoupDY \notin tree
    /\ SoupX \in tree
    /\ \A k \in 1..Len(log) : log[k].for # SoupDY
    /\ \E k \in 1..Len(log) : log[k].op = "upload" /\ log[k].for = SoupX /\ log[k].err = NoErr
    /\ MarkerContents(remote) = {current_hash}
    /\ markerBefore # {current_hash}

-----------------------------------------------------------------------------
(* Claims about the synchronization root *)

RootPath == <<ICLOUD_FOLDER_NAME>>

\* positions of the log where the root was obtained: a lookup returned it
RootFoundAt ==
    {k \in 1..Len(log) : log[k].op = "lookup" /\ log[k].path = RootPath /\ log[k].err = NoErr}

\* C15: in every run the root is looked up first; it is created only when
\* that lookup missed, at most once in the run, and never when it was
\* found; every other remote operation of the run (marker read, mkdir,
\* upload, delete, marker write) comes after the root was obtained.
C15_RootFirstAndLazy ==
    /\ log # <<>> => (log[1].op = "lookup" /\ log[1].path = RootPath)
    /\ \A k \in 1..Len(log) :
         (log[k].op = "mkdir" /\ log[k].path = RootPath) =>
             (k = 2 /\ log[1].err = KeyError)
    /\ \A k \in 1..Len(log) :
         log[k].path # RootPath => \E j \in RootFoundAt : j < k

\* a run on a drive without the root: lookup missed, mkdir, lookup, and the
\* run went on to upload soup/x and the marker
C15_Witness ==
    /\ pc = "done"
    /\ Len(log) > 3
    /\ log[1] = [op |-> "lookup", path |-> RootPath, err |-> KeyError, ret |-> <<>>, secs |-> 0, for |-> <<>>]
    /\ log[2].op = "mkdir" /\ log[2].path = RootPath /\ log[2].err = NoErr
    /\ log[3].op = "lookup" /\ log[3].path = RootPath /\ log[3].err = NoErr
    /\ \E k \in 4..Len(log) : log[k].op = "upload" /\ log[k].for = SoupX /\ log[k].err = NoErr
    /\ MarkerContents(remote) = {current_hash}

-----------------------------------------------------------------------------
(* Claims about renames *)

\* the one record a diff holding only the rename of soup/x to soup/d/y gives
\* when it is read as a Renamed record: the model's rename line
RenameLine == Line(<<"R", "1", "0", "0">>, <<SoupX, SoupDY>>)

\* C16: an incremental run over the rename of soup/x (old) to soup/d/y
\* (new), the working tree holding the new path and not the old one,
\* upserts the file at the new path, which is on the drive when the run
\* ends, and never deletes the node of the old path.
C16_RenameUpsertsNewPath ==
    (/\ pc = "done"
     /\ Incremental
     /\ changes = get_git_changes(RenameLine \o <<NL>>)
     /\ SoupDY \in tree
     /\ SoupX \notin tree
     /\ UnrecoveredAt = {})
    => /\ NodesAt(RemotePath(SoupDY)) = {Node(RemotePath(SoupDY), "file", current_hash)}
       /\ \A k \in 1..Len(log) : ~(log[k].op = "delete" /\ log[k].path = RemotePath(SoupX))

-----------------------------------------------------------------------------
(* Claims about upload_file *)

\* the step now taken ended with the upload of a local file: upload_file
\* returned
Uploaded ==
    /\ NewEntries # <<>>
    /\ NewEntries[Len(NewEntries)].op = "upload"
    /\ NewEntries[Len(NewEntries)].err = NoErr
    /\ NewEntries[Len(NewEntries)].for # <<>>

UploadedPath == NewEntries[Len(NewEntries)].path

\* the children of the folder that holds the node of path p, p excepted
Siblings(bag, p) ==
    {n \in BagToSet(bag) :
        /\ Len(n.path) = Len(p)
        /\ SubSeq(n.path, 1, Len(p) - 1) = SubSeq(p, 1, Len(p) - 1)
        /\ n.path # p}

\* C17: upload_file deletes a child of the file's name that the folder
\* holds, and every such delete comes before the upload is attempted; when
\* upload_file has returned, the folder holds exactly one child of that
\* name, with the local file's contents, and its other children are as they
\* were.
C17_UploadReplaces ==
    [][Uploaded =>
         LET p == UploadedPath
             new == Node(p, "file", current_hash)
             DeletesAt == {k \in 1..Len(NewEntries) :
                              NewEntries[k].op = "delete" /\ NewEntries[k].path = p}
             UploadsAt == {k \in 1..Len(NewEntries) :
                              NewEntries[k].op = "upload" /\ NewEntries[k].path = p}
         IN /\ NodesAt(p) # {} => \E k \in DeletesAt : NewEntries[k].err = NoErr
            /\ \A k \in DeletesAt : \A j \in UploadsAt : k < j
            /\ {n \in BagToSet(remote') : n.path = p} = {new}
            /\ CopiesIn(new, remote') = 1
            /\ Siblings(remote', p) = Siblings(remote, p)
            /\ \A n \in Siblings(remote, p) : CopiesIn(n, remote') = CopiesIn(n, remote)]_vars

\* a full walk met soup/x on the drive, with the contents of another
\* revision, beside the folder soup/d: the node was deleted, then uploaded
C17_Witness ==
    /\ Full
    /\ \E k \in 1..Len(log) :
         /\ log[k].op = "delete" /\ log[k].path = RemotePath(SoupX) /\ log[k].err = NoErr
         /\ k < Len(log)
         /\ log[k + 1].op = "upload" /\ log[k + 1].path = RemotePath(SoupX) /\ log[k + 1].err = NoErr
    /\ NodesAt(RemotePath(SoupX)) = {Node(RemotePath(SoupX), "file", current_hash)}
    /\ NodesAt(RemotePath(<<"s", "/", "d">>)) # {}
    /\ current_hash = <<"r", "2">>

-----------------------------------------------------------------------------
(* Claims about the fallback after a create-folder call *)

\* positions of the log where a folder under the root was created and the
\* response held no data of the new node
MalformedAt ==
    {k \in 1..Len(log) :
        /\ log[k].op = "mkdir"
        /\ log[k].err = NoErr
        /\ log[k].ret = <<>>
        /\ log[k].path # RootPath}

LookupAt(k, p) == k <= Len(log) /\ log[k].op = "lookup" /\ log[k].path = p

\* the run stopped at position k of the log with an exception
StoppedAt(k) == pc = "crashed" /\ Len(log) = k

\* C18: after a create-folder call that succeeded without a usable node in
\* its response, in the full walk and in the incremental path alike, the
\* folder is looked up by name; on a miss the parent's listing is refreshed
\* once and the folder looked up once more.  When a lookup finds the folder
\* the run goes on, and the folder is not created a second time; a miss of
\* the lookup after the refresh, and only that, stops the run with a
\* failure for the path (the lookups themselves being answered).
C18_RefetchAfterMkdir ==
    \A k \in MalformedAt :
        LET p == log[k].path
            parent == SubSeq(p, 1, Len(p) - 1)
        IN /\ LookupAt(k + 1, p)
           /\ \A j \in (k + 1)..Len(log) : ~(log[j].op = "mkdir" /\ log[j].path = p)
           /\ log[k + 1].err = NoErr => ~StoppedAt(k + 1)
           /\ log[k + 1].err = KeyError =>
                 /\ k + 2 <= Len(log)
                 /\ log[k + 2].op = "dir"
                 /\ log[k + 2].path = parent
                 /\ LookupAt(k + 3, p)
                 /\ log[k + 3].err = NoErr => ~StoppedAt(k + 3)
                 /\ log[k + 3].err = KeyError => StoppedAt(k + 3)
                 /\ \A j \in (k + 4)..Len(log) : ~(log[j].op = "dir" /\ log[j].path = parent)

\* an incremental run created soup for the record of soup/x; the response
\* held no node and the first lookup missed; after the refresh the folder
\* was found, soup/x uploaded into it, and the run completed
C18_Witness ==
    /\ pc = "done"
    /\ Incremental
    /\ \E k \in MalformedAt :
         /\ log[k].path = RemotePath(<<"s">>)
         /\ k + 4 <= Len(log)
         /\ log[k + 1].err = KeyError
         /\ log[k + 2].op = "dir" /\ log[k + 2].err = NoErr
         /\ log[k + 3].op = "lookup" /\ log[k + 3].err = NoErr
         /\ \E j \in (k + 4)..Len(log) :
              log[j].op = "upload" /\ log[j].path = RemotePath(SoupX) /\ log[j].err = NoErr

-----------------------------------------------------------------------------
(* Claims about the marker over the runs *)

\* the step now taken made the marker's upload fail for good: the last
\* attempt retry_api_call allows was answered with a failure
MarkerUploadFailed ==
    /\ NewEntries # <<>>
    /\ NewEntries[Len(NewEntries)].op = "upload"
    /\ NewEntries[Len(NewEntries)].path = MarkerPath
    /\ NewEntries[Len(NewEntries)].err # NoErr

\* C19 (implicit): whatever the remote answers, over any sequence of runs,
\* update_last_deployed_commit returns to main, which completes; the marker
\* changes only in the marker step of a run, to that run's current revision
\* or to nothing, so that it is always absent or the revision of a run that
\* reached its marker step, and there is never more than one; a marker
\* upload that failed after its retries leaves the marker absent, never the
\* old value; and a run that starts with the marker absent takes the full
\* sync.
C19_MarkerNeverStale ==
    [][/\ pc = "mark" => pc' = "done"
       /\ MarkerContents(remote') # MarkerContents(remote) =>
             (pc = "mark" /\ MarkerContents(remote') \in {{}, {current_hash}})
       /\ Cardinality(NodesAt(MarkerPath)) <= 1
       /\ \A n \in NodesAt(MarkerPath) : CopiesIn(n, remote) = 1
       /\ (pc = "mark" /\ MarkerUploadFailed) => MarkerContents(remote') = {}
       /\ (runs' # runs /\ MarkerContents(remote) = {} /\ pc' # "crashed") =>
             (pc' \in {"full", "mark"} /\ ~Truthy(last_hash') /\ changes' = <<>>)]_vars

\* a run that found the marker of an earlier revision deleted it, and its
\* upload of the new marker was answered 503 on each of the three
\* attempts: the run completed and the marker is absent
C19_Witness ==
    /\ pc = "done"
    /\ markerBefore # {}
    /\ markerBefore # {current_hash}
    /\ MarkerContents(remote) = {}
    /\ Len(log) >= 6
    /\ log[Len(log) - 5].op = "delete" /\ log[Len(log) - 5].path = MarkerPath
    /\ log[Len(log) - 5].err = NoErr
    /\ \A k \in {Len(log) - 4, Len(log) - 2, Len(log)} :
         log[k].op = "upload" /\ log[k].path = MarkerPath /\ log[k].err = ApiError(503)

=============================================================================
